---- MODULE Spec2Model ----
(***************************************************************************)
(* Timsort (src/mian.cpp): minRunLength, binaryInsertionSort, mergeRuns    *)
(* and the run-stack driver timsortImpl, as a state machine.               *)
(*                                                                         *)
(* An element is a pair <<key, tag>>.  The predicate compares keys only,   *)
(* so elements with the same key are equal under it and the tag tells them *)
(* apart.  Indices are 0-based as in the source; At(s, i) reads slot i.    *)
(***************************************************************************)
EXTENDS Integers, Sequences, FiniteSets, TLC

VARIABLES
    moveEmpties,  \* element type: TRUE when std::move leaves the source emptied
    input,        \* the sequence handed to the current timsort call
    a,            \* the sequence [first, last) being sorted in place
    n,            \* timsortImpl: n
    minRun,       \* timsortImpl: minRun
    runStack,     \* timsortImpl: runStack (bottom first)
    buffer,       \* timsortImpl: buffer, the merge buffer
    start,        \* timsortImpl: start
    runLen,       \* timsortImpl: runLen
    leftSize,     \* mergeRuns: leftSize of the latest call
    rightSize,    \* mergeRuns: rightSize of the latest call
    pass,         \* which timsort call of the caller is running (1 or 2)
    firstOut,     \* the sequence as the first call left it
    left,         \* binaryInsertionSort: left
    right,        \* binaryInsertionSort: right
    it,           \* binaryInsertionSort: it
    trigger,      \* which test or loop made the latest mergeRuns call
    pc            \* position in the code

vars == <<moveEmpties, input, a, n, minRun, runStack, buffer, start, runLen,
          leftSize, rightSize, pass, firstOut, left, right, it, trigger, pc>>

MIN_MERGE == 32

\* ---- bounds of the checked inputs ----
NumKeys == 3        \* keys of the exhaustive inputs and of ascending blocks
MaxSmallLen == 4    \* every sequence up to this length is an input
MaxBlocks == 4      \* block-built inputs have at most this many blocks
MaxLen == 129       \* block-built inputs have at most this many elements
MaxN == 300         \* minRunLength is applied to every n up to this

\* ---- elements and the predicate ----
Empty == <<0, 0>>
MovedFrom(x) == IF moveEmpties THEN Empty ELSE x
comp(x, y) == x[1] < y[1]
\* A sequence given as a function, as the tuple of its values.
AsSeq(f) == SubSeq(f, 1, Len(f))
At(s, i) == s[i + 1]
Put(s, i, x) == [s EXCEPT ![i + 1] = x]

\* ---- minRunLength ----
BitOr(r, b) == IF r = 1 \/ b = 1 THEN 1 ELSE 0

RECURSIVE MinRunLoop(_, _)
MinRunLoop(m, r) ==
    IF m >= MIN_MERGE THEN MinRunLoop(m \div 2, BitOr(r, m % 2)) ELSE m + r

RECURSIVE MinRunLoopAdd(_, _)
MinRunLoopAdd(m, r) ==
    IF m >= MIN_MERGE THEN MinRunLoopAdd(m \div 2, r + (m % 2)) ELSE m + r

minRunLengthAdd(m) == MinRunLoopAdd(m, 0)

minRunLength(m) == MinRunLoop(m, 0)

\* ---- binaryInsertionSort ----
\* std::upper_bound(left, it, key, comp): first position in [first, first+len)
\* whose element is greater than key, by halving.
RECURSIVE UpperBound(_, _, _, _)
UpperBound(s, first, len, key) ==
    IF len > 0
    THEN LET half == len \div 2
             mid == first + half
         IN  IF comp(key, At(s, mid))
             THEN UpperBound(s, first, half, key)
             ELSE UpperBound(s, mid + 1, len - half - 1, key)
    ELSE first

\* std::move_backward(pos, i, i + 1): slots pos+1..i receive pos..i-1, last
\* first; the slot pos is left moved-from.
MoveBackward(s, pos, i) ==
    AsSeq([k \in 1..Len(s) |->
        IF pos + 1 < k /\ k <= i + 1 THEN s[k - 1]
        ELSE IF k = pos + 1 /\ pos < i THEN MovedFrom(s[k])
        ELSE s[k]])

\* The guard of line 29.
ShouldPlace(pos, i) == pos # i

\* One iteration of the for loop, for the element at i.
InsertStep(s, lo, i) ==
    LET key == At(s, i)
        s1 == Put(s, i, MovedFrom(key))
        pos == UpperBound(s1, lo, i - lo, key)
    IN  IF ShouldPlace(pos, i)
        THEN Put(MoveBackward(s1, pos, i), pos, key)
        ELSE s1

\* The iterations for the elements at i, i+1, ..., i+k-1, in that order: the
\* first half of them (the test on its length has it computed first), then
\* the rest.
RECURSIVE InsertSteps(_, _, _, _)
InsertSteps(s, lo, i, k) ==
    IF k <= 0 THEN s
    ELSE IF k = 1 THEN InsertStep(s, lo, i)
    ELSE LET half == InsertSteps(s, lo, i, k \div 2)
         IN  IF Len(half) = Len(s)
             THEN InsertSteps(half, lo, i + k \div 2, k - k \div 2)
             ELSE half

\* for (it = left + 1; it < right; ++it)
binaryInsertionSort(s, lo, hi) == InsertSteps(s, lo, lo + 1, hi - lo - 1)

\* ---- mergeRuns ----
\* Lines 44-46: the buffer grows to leftSize, new slots value-initialised.
ResizeNever(buf, size) == buf

Resize(buf, size) ==
    IF Len(buf) < size
    THEN buf \o AsSeq([k \in 1..(size - Len(buf)) |-> Empty])
    ELSE buf

\* Line 59: the head of the buffered left run is written first.
TakeLeft(l, r) == comp(l, r)

\* Lines 58-64, one iteration of the while loop.  lbuf is buffer[0, leftSize):
\* the left run as line 49 moved it there; st.l, st.r, st.d are the cursors
\* left, right, dest.  Once the loop's condition fails the state stays.
MergeStep(st, lbuf, rightEnd) ==
    IF st.l # Len(lbuf) /\ st.r # rightEnd
    THEN IF TakeLeft(lbuf[st.l + 1], At(st.s, st.r))
         THEN [s |-> Put(st.s, st.d, lbuf[st.l + 1]),
               l |-> st.l + 1, r |-> st.r, d |-> st.d + 1]
         ELSE [s |-> Put(Put(st.s, st.r, MovedFrom(At(st.s, st.r))), st.d, At(st.s, st.r)),
               l |-> st.l, r |-> st.r + 1, d |-> st.d + 1]
    ELSE st

\* k iterations of the loop: the first half of them (the test on dest has it
\* computed first), then the rest.
RECURSIVE MergeSteps(_, _, _, _)
MergeSteps(st, lbuf, rightEnd, k) ==
    IF k <= 0 THEN st
    ELSE IF k = 1 THEN MergeStep(st, lbuf, rightEnd)
    ELSE LET half == MergeSteps(st, lbuf, rightEnd, k \div 2)
         IN  IF half.d >= st.d
             THEN MergeSteps(half, lbuf, rightEnd, k - k \div 2)
             ELSE half

\* Lines 67-69: what is left of the buffered run goes to dest.
MoveRest(st, lbuf) ==
    AsSeq([k \in 1..Len(st.s) |->
        IF st.d < k /\ k <= st.d + (Len(lbuf) - st.l)
        THEN lbuf[st.l + (k - st.d)]
        ELSE st.s[k]])

\* Lines 51-69: the loop runs at most once per element of [from, end).
MergeLoop(s, lbuf, from, mid, end) ==
    MoveRest(MergeSteps([s |-> s, l |-> 0, r |-> mid, d |-> from], lbuf, end,
                        end - from),
             lbuf)

\* Line 49 on the sequence: the slots of [from, mid) are left moved-from.
MoveOut(s, from, mid) ==
    AsSeq([k \in 1..Len(s) |-> IF from < k /\ k <= mid THEN MovedFrom(s[k]) ELSE s[k]])

\* The sequence after mergeRuns(first + from, first + mid, first + end).
mergeRuns(s, from, mid, end) ==
    MergeLoop(MoveOut(s, from, mid), SubSeq(s, from + 1, mid), from, mid, end)

\* The buffer after the same call: grown, its first leftSize slots moved out.
BufferAfter(buf, s, from, mid) ==
    LET b1 == Resize(buf, mid - from)
    IN  AsSeq([k \in 1..Len(b1) |->
            IF k <= mid - from THEN MovedFrom(At(s, from + k - 1)) ELSE b1[k]])

\* ---- run detection (timsortImpl, lines 92-108) ----
\* Line 98: the loop goes on while this holds of runLen = rl.
GoesDown(s, len, from, rl) ==
    from + rl < len /\ comp(At(s, from + rl), At(s, from + rl - 1))

\* Line 104.
GoesUp(s, len, from, rl) ==
    from + rl < len /\ ~comp(At(s, from + rl), At(s, from + rl - 1))

\* Lines 98-100: runLen when the loop ends, the first value from 1 on at
\* which its condition fails.
CountDescending(s, len, from) ==
    CHOOSE rl \in 1..(len - from) :
        ~GoesDown(s, len, from, rl) /\ \A o \in 1..(rl - 1) : GoesDown(s, len, from, o)

\* Lines 104-106.
CountAscending(s, len, from) ==
    CHOOSE rl \in 1..(len - from) :
        ~GoesUp(s, len, from, rl) /\ \A o \in 1..(rl - 1) : GoesUp(s, len, from, o)

IsDescending(s, len, from) ==
    from + 1 < len /\ comp(At(s, from + 1), At(s, from))

DetectedLength(s, len, from) ==
    IF from + 1 < len
    THEN IF IsDescending(s, len, from)
         THEN CountDescending(s, len, from)
         ELSE CountAscending(s, len, from)
    ELSE 1

\* std::reverse(first + lo, first + hi)
Reverse(s, lo, hi) ==
    AsSeq([k \in 1..Len(s) |-> IF lo < k /\ k <= hi THEN s[lo + 1 + hi - k] ELSE s[k]])

Min(x, y) == IF x < y THEN x ELSE y

\* Lines 111-115: the length of the run that is pushed.
ForcedLength(rl, mr, len, from) == IF rl < mr THEN Min(mr, len - from) ELSE rl

\* The sequence after lines 92-115 for the run starting at from.
ProduceRun(s, len, mr, from) ==
    LET rl == DetectedLength(s, len, from)
        s1 == IF IsDescending(s, len, from) THEN Reverse(s, from, from + rl) ELSE s
    IN  IF rl < mr
        THEN binaryInsertionSort(s1, from, from + Min(mr, len - from))
        ELSE s1

\* ---- the run stack (timsortImpl, lines 118-170) ----
Run(st, ln) == [start |-> st, length |-> ln]

\* Lines 125-132: the test on the top three runs.
MergeByABC(stack) ==
    LET size == Len(stack)
    IN  size >= 3 /\ stack[size - 2].length <= stack[size - 1].length + stack[size].length

\* Lines 133-139: the test on the top two runs.
MergeByBCStrict(stack) ==
    LET size == Len(stack)
    IN  size >= 2 /\ stack[size - 1].length < stack[size].length

MergeByBC(stack) ==
    LET size == Len(stack)
    IN  size >= 2 /\ stack[size - 1].length <= stack[size].length

shouldMerge(stack) == MergeByABC(stack) \/ MergeByBC(stack)

\* Lines 150 and 169: the run that replaces run1 and run2.
MergedRunRight(run1, run2) == Run(run2.start, run1.length + run2.length)

MergedRun(run1, run2) == Run(run1.start, run1.length + run2.length)

\* Lines 143-150 and 162-169 on the stack.
StackAfterMerge(stack) ==
    LET size == Len(stack)
    IN  Append(SubSeq(stack, 1, size - 2), MergedRun(stack[size - 1], stack[size]))

\* Line 160: the drain loop's condition.
DrainGuardTwo(stack) == Len(stack) > 2

DrainGuard(stack) == Len(stack) > 1

\* ---- the inputs ----
Tagged(ks) == AsSeq([i \in 1..Len(ks) |-> <<ks[i], i>>])

\* Every sequence of keys 1..NumKeys up to MaxSmallLen elements.
SmallInputs ==
    UNION {{Tagged(f) : f \in [1..len -> 1..NumKeys]} : len \in 0..MaxSmallLen}

\* Longer inputs are built from blocks: an ascending block rises through the
\* keys 1..NumKeys (with ties), a descending block falls strictly to 1.
BlockLens == {1, 18, 38, 72}
Shapes == {"asc", "desc", "alt"}

Block(len, down) ==
    AsSeq([o \in 1..len |->
        IF down THEN len - o + 1 ELSE 1 + ((o - 1) * NumKeys) \div len])

IsDown(shape, j) == shape = "desc" \/ (shape = "alt" /\ j % 2 = 0)

RECURSIVE BlockKeys(_, _, _)
BlockKeys(prof, shape, j) ==
    IF j > Len(prof) THEN <<>>
    ELSE Block(prof[j], IsDown(shape, j)) \o BlockKeys(prof, shape, j + 1)

RECURSIVE SumSeq(_)
SumSeq(q) == IF q = <<>> THEN 0 ELSE Head(q) + SumSeq(Tail(q))

Profiles ==
    {q \in UNION {[1..k -> BlockLens] : k \in 1..MaxBlocks} : SumSeq(q) <= MaxLen}

BlockInputs == {Tagged(BlockKeys(q, sh, 1)) : q \in Profiles, sh \in Shapes}

Inputs == SmallInputs \cup BlockInputs

\* ---- timsort: the state machine ----
Init ==
    /\ moveEmpties \in BOOLEAN
    /\ input \in Inputs
    /\ a = input
    /\ n = 0 /\ minRun = 0 /\ runStack = <<>> /\ buffer = <<>>
    /\ start = 0 /\ runLen = 0 /\ leftSize = 0 /\ rightSize = 0
    /\ pass = 1 /\ firstOut = <<>>
    /\ left = 0 /\ right = 0 /\ it = 0
    /\ trigger = "none"
    /\ pc = "entry"

\* Lines 80-81: n <= 1, nothing to do.
ReturnTrivial ==
    /\ pc = "entry"
    /\ Len(a) <= 1
    /\ n' = Len(a)
    /\ runStack' = <<>> /\ start' = 0
    /\ pc' = "done"
    /\ UNCHANGED <<moveEmpties, input, a, minRun, buffer, runLen, leftSize,
                   rightSize, pass, firstOut, left, right, it, trigger>>

\* Lines 80-90.
Begin ==
    /\ pc = "entry"
    /\ Len(a) > 1
    /\ n' = Len(a)
    /\ minRun' = minRunLength(Len(a))
    /\ runStack' = <<>>
    /\ buffer' = <<>>
    /\ start' = 0
    /\ runLen' = 0 /\ leftSize' = 0 /\ rightSize' = 0 /\ trigger' = "none"
    /\ pc' = "scan"
    /\ UNCHANGED <<moveEmpties, input, a, pass, firstOut, left, right, it>>

\* Lines 91-118: detect the run at start, reverse it if descending, extend it
\* by binaryInsertionSort if short, push it.
NextRun ==
    /\ pc = "scan"
    /\ start < n
    /\ a' = ProduceRun(a, n, minRun, start)
    /\ runLen' = ForcedLength(DetectedLength(a, n, start), minRun, n, start)
    /\ runStack' = Append(runStack, Run(start, runLen'))
    /\ pc' = "collapse"
    /\ UNCHANGED <<moveEmpties, input, n, minRun, buffer, start, leftSize,
                   rightSize, pass, firstOut, left, right, it, trigger>>

\* Lines 143-150 and 162-169: pop run2 and run1, merge them, push the result.
MergeTop(why) ==
    LET size == Len(runStack)
        run1 == runStack[size - 1]
        run2 == runStack[size]
        mid == run1.start + run1.length
    IN  /\ a' = mergeRuns(a, run1.start, mid, mid + run2.length)
        /\ buffer' = BufferAfter(buffer, a, run1.start, mid)
        /\ leftSize' = run1.length
        /\ rightSize' = run2.length
        /\ runStack' = StackAfterMerge(runStack)
        /\ trigger' = why

\* Lines 121-150: one iteration of the collapse loop that merges.
CollapseMerge ==
    /\ pc = "collapse"
    /\ Len(runStack) > 1
    /\ shouldMerge(runStack)
    /\ MergeTop(IF MergeByABC(runStack) THEN "ABC" ELSE "BC")
    /\ UNCHANGED <<moveEmpties, input, n, minRun, start, runLen, pass,
                   firstOut, left, right, it, pc>>

\* Lines 121 and 151-153: the collapse loop ends.
CollapseExit ==
    /\ pc = "collapse"
    /\ ~(Len(runStack) > 1 /\ shouldMerge(runStack))
    /\ pc' = "advance"
    /\ UNCHANGED <<moveEmpties, input, a, n, minRun, runStack, buffer, start,
                   runLen, leftSize, rightSize, pass, firstOut, left, right,
                   it, trigger>>

\* Lines 156 and 91: start += runLen, and the outer loop's test.
Advance ==
    /\ pc = "advance"
    /\ start' = start + runLen
    /\ pc' = IF start' < n THEN "scan" ELSE "drain"
    /\ UNCHANGED <<moveEmpties, input, a, n, minRun, runStack, buffer, runLen,
                   leftSize, rightSize, pass, firstOut, left, right, it,
                   trigger>>

\* Lines 160-170: one iteration of the final drain.
DrainMerge ==
    /\ pc = "drain"
    /\ DrainGuard(runStack)
    /\ MergeTop("drain")
    /\ UNCHANGED <<moveEmpties, input, n, minRun, start, runLen, pass,
                   firstOut, left, right, it, pc>>

\* Lines 160 and 171: the drain loop ends and timsortImpl returns.
Return ==
    /\ pc = "drain"
    /\ ~DrainGuard(runStack)
    /\ pc' = "done"
    /\ UNCHANGED <<moveEmpties, input, a, n, minRun, runStack, buffer, start,
                   runLen, leftSize, rightSize, pass, firstOut, left, right,
                   it, trigger>>

\* The caller applies timsort (lines 176-179) to the result once more.
SortAgain ==
    /\ pc = "done"
    /\ pass = 1
    /\ firstOut' = a
    /\ input' = a
    /\ pass' = 2
    /\ pc' = "entry"
    /\ UNCHANGED <<moveEmpties, a, n, minRun, runStack, buffer, start, runLen,
                   leftSize, rightSize, left, right, it, trigger>>

Next ==
    \/ ReturnTrivial
    \/ Begin
    \/ NextRun
    \/ CollapseMerge
    \/ CollapseExit
    \/ Advance
    \/ DrainMerge
    \/ Return
    \/ SortAgain

Spec == Init /\ [][Next]_vars

\* ---- binaryInsertionSort on its own, one loop iteration per step ----
InitInsert ==
    /\ moveEmpties \in BOOLEAN
    /\ input \in SmallInputs
    /\ a = input
    /\ n = Len(input)
    /\ left \in 0..Len(input)
    /\ right \in left..Len(input)
    /\ it = left + 1
    /\ minRun = 0 /\ runStack = <<>> /\ buffer = <<>>
    /\ start = 0 /\ runLen = 0 /\ leftSize = 0 /\ rightSize = 0
    /\ pass = 1 /\ firstOut = <<>>
    /\ trigger = "none"
    /\ pc = "insert"

\* Lines 24-33: one iteration of the for loop.
InsertNext ==
    /\ pc = "insert"
    /\ it < right
    /\ a' = InsertStep(a, left, it)
    /\ it' = it + 1
    /\ UNCHANGED <<moveEmpties, input, n, minRun, runStack, buffer, start,
                   runLen, leftSize, rightSize, pass, firstOut, left, right,
                   trigger, pc>>

\* Lines 24 and 34: the loop ends.
InsertReturn ==
    /\ pc = "insert"
    /\ ~(it < right)
    /\ pc' = "inserted"
    /\ UNCHANGED <<moveEmpties, input, a, n, minRun, runStack, buffer, start,
                   runLen, leftSize, rightSize, pass, firstOut, left, right,
                   it, trigger>>

NextInsert == InsertNext \/ InsertReturn

SpecInsert == InitInsert /\ [][NextInsert]_vars

\* ---- mergeRuns on its own: two adjacent sorted runs, merged as the drain does ----
Sorted(s) == \A i \in 1..(Len(s) - 1) : ~comp(s[i + 1], s[i])

InitMerge ==
    /\ moveEmpties \in BOOLEAN
    /\ input \in SmallInputs
    /\ a = input
    /\ n = Len(input)
    /\ \E mid \in 1..(Len(input) - 1) :
          /\ Sorted(SubSeq(input, 1, mid))
          /\ Sorted(SubSeq(input, mid + 1, Len(input)))
          /\ runStack = <<Run(0, mid), Run(mid, Len(input) - mid)>>
    /\ start = Len(input)
    /\ minRun = minRunLength(Len(input))
    /\ buffer = <<>>
    /\ runLen = 0 /\ leftSize = 0 /\ rightSize = 0
    /\ pass = 1 /\ firstOut = <<>>
    /\ left = 0 /\ right = 0 /\ it = 0
    /\ trigger = "none"
    /\ pc = "drain"

NextMerge == DrainMerge \/ Return

SpecMerge == InitMerge /\ [][NextMerge]_vars

\* ---- minRunLength on its own ----
InitMinRun ==
    /\ n \in 0..MaxN
    /\ minRun = 0
    /\ moveEmpties = FALSE
    /\ input = <<>> /\ a = <<>> /\ runStack = <<>> /\ buffer = <<>>
    /\ start = 0 /\ runLen = 0 /\ leftSize = 0 /\ rightSize = 0
    /\ pass = 1 /\ firstOut = <<>>
    /\ left = 0 /\ right = 0 /\ it = 0
    /\ trigger = "none"
    /\ pc = "minrun"

\* Line 83: minRun = minRunLength(n).
ComputeMinRun ==
    /\ pc = "minrun"
    /\ minRun' = minRunLength(n)
    /\ pc' = "computed"
    /\ UNCHANGED <<moveEmpties, input, a, n, runStack, buffer, start, runLen,
                   leftSize, rightSize, pass, firstOut, left, right, it,
                   trigger>>

NextMinRun == ComputeMinRun

SpecMinRun == InitMinRun /\ [][NextMinRun]_vars

\* ---- what the claims speak of ----
Range(s) == {s[i] : i \in 1..Len(s)}
Count(s, x) == Cardinality({i \in 1..Len(s) : s[i] = x})

\* s and t hold the same multiset of elements.
SameBag(s, t) ==
    /\ Len(s) = Len(t)
    /\ Range(s) = Range(t)
    /\ \/ Cardinality(Range(s)) = Len(s)
       \/ \A x \in Range(s) : Count(s, x) = Count(t, x)

Equal(x, y) == ~comp(x, y) /\ ~comp(y, x)

\* Elements equal under the predicate stand in the order of their tags.
TagOrder(s) ==
    \A i, j \in 1..Len(s) : (i < j /\ Equal(s[i], s[j])) => s[i][2] < s[j][2]

\* The balance invariant over the whole stack, bottom to top.
Balanced(stack) ==
    \A i \in 1..Len(stack) :
        /\ (i + 1 <= Len(stack)) => stack[i].length > stack[i + 1].length
        /\ (i + 2 <= Len(stack)) =>
              stack[i].length > stack[i + 1].length + stack[i + 2].length

\* The stack tiles [0, upTo): contiguous runs from index 0, none empty, none
\* past the end of the sequence.
Tiles(stack, upTo) ==
    /\ \A i \in 1..Len(stack) :
          /\ stack[i].length >= 1
          /\ stack[i].start + stack[i].length <= n
          /\ stack[i].start = IF i = 1 THEN 0
                              ELSE stack[i - 1].start + stack[i - 1].length
    /\ upTo = IF stack = <<>> THEN 0
              ELSE stack[Len(stack)].start + stack[Len(stack)].length

\* A rank of the states of the caller's two sort calls.  Within a call it
\* counts the elements still to scan, then the position in the loop body,
\* then the runs on the stack.
RankUnit == Len(a) + 4

CallRank ==
    CASE pc = "entry" -> (Len(a) + 1) * RankUnit
      [] pc = "scan" -> (Len(a) - start) * RankUnit + RankUnit - 1
      [] pc = "collapse" -> (Len(a) - start) * RankUnit + 1 + Len(runStack)
      [] pc = "advance" -> (Len(a) - start) * RankUnit
      [] pc = "drain" -> 1 + Len(runStack)
      [] OTHER -> 0

Rank == (2 - pass) * (Len(a) + 2) * RankUnit + CallRank

\* What the sort does establish when moving an element copies it (int, a pair
\* of ints): sorted, a permutation, and unchanged by a second call.
SortsCopyableElements ==
    (pc = "done" /\ ~moveEmpties) => (Sorted(a) /\ SameBag(a, input))

ResortKeepsCopyableElements ==
    (pc = "done" /\ pass = 2 /\ ~moveEmpties) => a = firstOut

\* ---- the claims ----

\* C1: when timsort returns, the sequence is non-decreasing under the
\* predicate and holds the same multiset of elements as the input, for every
\* input and every element type.
C1_SortedPermutation ==
    pc = "done" => (Sorted(a) /\ SameBag(a, input))

\* C2: timsort is stable: elements equal under the predicate leave the first
\* call in the order they entered it (the tag is the input position).  Stated
\* here for element types whose move is a copy, where the merge alone decides.
C2_Stable ==
    (pc = "done" /\ pass = 1 /\ ~moveEmpties) => TagOrder(a)

\* C3: timsort is idempotent: a second call on the first call's result leaves
\* exactly the same sequence, position by position, tags included.
C3_Idempotent ==
    (pc = "done" /\ pass = 2) => a = firstOut

\* C4: mergeRuns is a stable merge: after it has merged two adjacent sorted
\* ranges, no element of the right range stands before an element of the
\* left range that is equal to it (tags 1..leftSize are the left range).
C4_MergeIsStable ==
    trigger = "drain" =>
        \A i, j \in 1..Len(a) :
            (i < j /\ Equal(a[i], a[j]) /\ a[i][2] > leftSize)
                => ~(a[j][2] \in 1..leftSize)

\* C5: whenever the collapse loop that follows a push has exited, the balance
\* invariant holds over the whole run stack: each run is longer than the next
\* one and longer than the next two together.
C5_BalancedAtExit ==
    pc = "advance" => Balanced(runStack)

C5_Witness ==
    pc = "advance" /\ Len(runStack) >= 4

\* C6 as claimed: in every mergeRuns call the left run, the one copied into
\* the buffer, is no longer than the right run.
C6_LeftRunIsSmaller ==
    trigger # "none" => leftSize <= rightSize

\* C6 as amended: in every mergeRuns call the buffer is grown to hold the left
\* run, whichever run is shorter; the left run is no longer than the right
\* run when the merge was made by the test B <= C alone.
C6_BufferHoldsLeftRun ==
    trigger # "none" =>
        /\ leftSize <= Len(buffer)
        /\ trigger = "BC" => leftSize <= rightSize

C6_Witness ==
    trigger # "none" /\ leftSize > rightSize /\ Len(buffer) >= leftSize

\* C7 as claimed: for n >= 32, minRunLength(n) is in 32..64.
C7_MinRunIn32To64 ==
    (pc = "computed" /\ n >= MIN_MERGE) => minRun \in 32..64

\* C7 as amended: for n >= 32, minRunLength(n) is in 16..32, that is in
\* MIN_MERGE/2 .. MIN_MERGE.
C7_MinRunIn16To32 ==
    (pc = "computed" /\ n >= MIN_MERGE) => minRun \in 16..32

C7_Witness ==
    pc = "computed" /\ n >= MIN_MERGE /\ minRun = 16

\* C8: at every point of a sort call the run stack tiles a prefix of the
\* sequence: runs contiguous from index 0, each of length >= 1, each ending
\* at or before n; the prefix ends at start, or at start + runLen between a
\* push and the advance of start.
C8_StackTilesPrefix ==
    /\ pc \in {"scan", "drain", "done"} => Tiles(runStack, start)
    /\ pc \in {"collapse", "advance"} => Tiles(runStack, start + runLen)

C8_Witness ==
    pc = "collapse" /\ Len(runStack) >= 3 /\ trigger # "none"

\* C9: every sort call on a sequence of at least two elements terminates with
\* exactly one run {start: 0, length: n} on the stack: every step lowers a
\* natural-number rank (so no loop runs for ever), start grows on every outer
\* iteration without passing n, the outer loop's body is entered only with
\* start < n, and at the return the stack is <<{0, n}>>.
C9_Terminates ==
    /\ [](Rank \in Nat)
    /\ [][Rank' < Rank]_vars
    /\ [][pc = "advance" => (start < start' /\ start' <= n)]_vars
    /\ [](pc = "scan" => start < n)
    /\ []((pc = "done" /\ n >= 2) => runStack = <<Run(0, n)>>)

C9_Witness ==
    pc = "done" /\ n >= MIN_MERGE /\ trigger = "drain" /\ runStack = <<Run(0, n)>>

\* C10: in binaryInsertionSort, with a move that empties its source, after
\* each insertion step no slot of [left, right) is left moved-from and the
\* range holds the same multiset of elements as at the call.
C10_NothingLeftMovedFrom ==
    pc \in {"insert", "inserted"} =>
        /\ \A k \in (left + 1)..right : a[k] # Empty
        /\ SameBag(SubSeq(a, left + 1, right), SubSeq(input, left + 1, right))

====
